---------------------------- MODULE Spec2Model ----------------------------
(***************************************************************************)
(* MindFlow API (src/main.py, src/schemas.py): a wellness-tracking backend *)
(* over a document store.  The state is the store's collections, the       *)
(* clock and the last response; one action per route handler.              *)
(***************************************************************************)
EXTENDS Integers, Sequences, FiniteSets, TLC

VARIABLES
    db,          \* the process-wide store handle: TRUE when connected, FALSE when None
    profile,     \* collection "profile", in natural (insertion) order
    moodentry,   \* collection "moodentry"
    habit,       \* collection "habit"
    reminder,    \* collection "reminder"
    cycleentry,  \* collection "cycleentry"
    now,         \* the UTC clock, in ticks
    response,    \* the response of the last completed request
    pc,          \* per worker thread: position inside email_login
    arg,         \* per worker thread: the email of the request in progress
    ret          \* per worker thread: the response of its finished request

vars == <<db, profile, moodentry, habit, reminder, cycleentry, now, response, pc, arg, ret>>

store == <<profile, moodentry, habit, reminder, cycleentry>>

threadVars == <<pc, arg, ret>>

-----------------------------------------------------------------------------
(* Bounds of the model *)

MaxClock == 1

TicksPerDay == 2

MaxMoods == 2

MaxDocs == 1

MaxCycles == 2

NThreads == 2

PhaseDays == 40

-----------------------------------------------------------------------------
(* Values *)

None == <<>>

Some(v) == <<v>>

Min(S) == CHOOSE x \in S : \A y \in S : x <= y

\* An email is <<local part, domain>>; split("@")[0] is its first component.
Ana == <<"ana", "x.io">>

Bo == <<"bo", "x.io">>

Emails == {Ana, Bo}

Threads == 1..NThreads

NoResponse == [op |-> "none", status |-> 0]

\* HTTPException(status, detail) and an unhandled exception (500)
Error(op, email, status, detail) ==
    [op |-> op, email |-> email, status |-> status, detail |-> detail]

Ok(op, email, body) ==
    [op |-> op, email |-> email, status |-> 200, body |-> body]

\* str(_id): the identifier rendered as a string
Str(id) == <<"oid", id>>

-----------------------------------------------------------------------------
(* Schema constraints: src/schemas.py *)

ProfileAgeMin == 0

ProfileAgeMax == 120

CycleLenMin == 20

CycleLenMax == 60

TitleMaxLen == 160

\* Profile(...): the fields the model constructor validates
ProfileValid(p) ==
    /\ p.gender \in {"female", "male"}
    /\ p.age >= ProfileAgeMin /\ p.age <= ProfileAgeMax
    /\ p.plan \in {"free", "pro", "premium"}
    /\ p.referrals >= 0
    /\ Len(p.name) >= 1

\* CycleEntry(...): cycle_length_days is None or within [20, 60]
CycleEntryValid(c) ==
    /\ c.entry_type \in {"period_start", "symptom"}
    /\ c.cycle_length_days = None
        \/ ( /\ c.cycle_length_days[1] >= CycleLenMin
             /\ c.cycle_length_days[1] <= CycleLenMax )

\* Habit(...): title of 1..160 characters (a title is modelled by its length)
HabitValid(h) ==
    /\ h.title >= 1 /\ h.title <= TitleMaxLen
    /\ h.frequency \in {"daily", "weekly", "custom"}

-----------------------------------------------------------------------------
(* The document store *)

\* find_one({"email": e}): the first match in natural order, or None
FindOne(coll, e) ==
    LET idx == {i \in 1..Len(coll) : coll[i].email = e}
    IN  IF idx = {} THEN None ELSE Some(coll[Min(idx)])

\* insert_one(doc): appended, with a fresh _id
InsertOne(coll, doc) ==
    Append(coll, [doc EXCEPT !._id = Len(coll) + 1])

\* update_one({"email": e}, {"$set": updates}): the first match only
UpdateOne(coll, e, set) ==
    LET idx == {i \in 1..Len(coll) : coll[i].email = e}
    IN  IF idx = {} THEN coll
        ELSE [coll EXCEPT ![Min(idx)] =
                [f \in DOMAIN @ |-> IF f \in DOMAIN set THEN set[f] ELSE @[f]]]

-----------------------------------------------------------------------------
(* Auth: email_login *)

AuthResponse(doc) ==
    [user_id |-> Str(doc._id),
     email |-> doc.email,
     period_tracking_enabled |-> doc.period_tracking_enabled,
     language |-> doc.language]

DefaultProfile(e) ==
    [_id |-> 0,
     email |-> e,
     name |-> <<e[1]>>,
     gender |-> "male",
     age |-> 18,
     language |-> "en",
     period_tracking_enabled |-> FALSE,
     plan |-> "free",
     referrals |-> 0,
     created_at |-> now,
     updated_at |-> now]

Unavailable(op, e) == Error(op, e, 503, "Database not available")

NotFound(op, e) == Error(op, e, 404, "User not found")

\* email_login without the lookup of an existing profile
email_login_always_inserts(e) ==
    /\ UNCHANGED <<db, moodentry, habit, reminder, cycleentry, now, threadVars>>
    /\ IF ~db
       THEN /\ response' = Unavailable("email_login", e)
            /\ UNCHANGED profile
       ELSE LET users == InsertOne(profile, DefaultProfile(e))
                created == FindOne(users, e)
            IN  /\ profile' = users
                /\ response' = Ok("email_login", e, AuthResponse(created[1]))

email_login(e) ==
    /\ UNCHANGED <<db, moodentry, habit, reminder, cycleentry, now, threadVars>>
    /\ IF ~db
       THEN /\ response' = Unavailable("email_login", e)
            /\ UNCHANGED profile
       ELSE LET existing == FindOne(profile, e)
            IN  IF existing # None
                THEN /\ response' = Ok("email_login", e, AuthResponse(existing[1]))
                     /\ UNCHANGED profile
                ELSE IF ~ProfileValid(DefaultProfile(e))
                THEN /\ response' = Error("email_login", e, 500, "ValidationError")
                     /\ UNCHANGED profile
                ELSE LET users == InsertOne(profile, DefaultProfile(e))
                         created == FindOne(users, e)
                     IN  /\ profile' = users
                         /\ response' = Ok("email_login", e, AuthResponse(created[1]))

-----------------------------------------------------------------------------
(* Profile setup & update: profile_setup *)

ProfileResponse(doc) ==
    [email |-> doc.email,
     name |-> doc.name,
     gender |-> doc.gender,
     age |-> doc.age,
     language |-> doc.language,
     period_tracking_enabled |-> doc.period_tracking_enabled,
     plan |-> doc.plan]

\* the threshold off by one: age > 13
TrackingFlag_over_13(body, existing) ==
    /\ (IF body.gender # None THEN body.gender[1] ELSE existing.gender) = "female"
    /\ body.age[1] > 13

\* Enable period tracking if female and age >= 13
TrackingFlag(body, existing) ==
    /\ (IF body.gender # None THEN body.gender[1] ELSE existing.gender) = "female"
    /\ body.age[1] >= 13

\* the updates dictionary built from the body: a function from field names
ProfileUpdates(body, existing) ==
    LET fields == {f \in {"name", "gender", "age", "language"} : body[f] # None}
                    \cup (IF body.age # None THEN {"period_tracking_enabled"} ELSE {})
    IN  [f \in fields |->
            CASE f = "name" -> body.name[1]
              [] f = "gender" -> body.gender[1]
              [] f = "age" -> body.age[1]
              [] f = "language" -> body.language[1]
              [] f = "period_tracking_enabled" -> TrackingFlag(body, existing)]

Stamped(updates) ==
    [f \in DOMAIN updates \cup {"updated_at"} |->
        IF f = "updated_at" THEN now ELSE updates[f]]

profile_setup(e, body) ==
    /\ UNCHANGED <<db, moodentry, habit, reminder, cycleentry, now, threadVars>>
    /\ IF ~db
       THEN /\ response' = Unavailable("profile_setup", e)
            /\ UNCHANGED profile
       ELSE LET existing == FindOne(profile, e)
            IN  IF existing = None
                THEN /\ response' = NotFound("profile_setup", e)
                     /\ UNCHANGED profile
                ELSE LET updates == ProfileUpdates(body, existing[1])
                         users == IF DOMAIN updates # {}
                                  THEN UpdateOne(profile, e, Stamped(updates))
                                  ELSE profile
                         updated == FindOne(users, e)
                     IN  /\ profile' = users
                         /\ response' = Ok("profile_setup", e, ProfileResponse(updated[1]))

\* ProfileUpdate bodies: every field optional; age is an unconstrained int
Body(n, g, a, l) == [name |-> n, gender |-> g, age |-> a, language |-> l]

AgeInputs == {-1, 0, 12, 13, 120, 121}

ProfileBodies ==
    {Body(n, g, a, l) :
        n \in {None, Some(<<"zed">>)},
        g \in {None, Some("female"), Some("male")},
        a \in {None} \cup {Some(x) : x \in AgeInputs},
        l \in {None, Some("fr")}}

-----------------------------------------------------------------------------
(* Store gateway: create_document and get_documents (module database) *)

\* create_document(name, doc): the document is appended with a fresh _id and
\* stamped with the insertion time
CreateDocument(coll, doc) ==
    Append(coll, [f \in DOMAIN doc \cup {"_id", "created_at"} |->
                    CASE f = "_id" -> Len(coll) + 1
                      [] f = "created_at" -> now
                      [] OTHER -> doc[f]])

\* the documents whose fields equal the filter's, in the store's order
Matching(coll, filter) ==
    LET keep(d) == \A f \in DOMAIN filter : d[f] = filter[f]
        F[i \in 0..Len(coll)] ==
            IF i = 0 THEN <<>>
            ELSE IF keep(coll[i]) THEN Append(F[i - 1], coll[i]) ELSE F[i - 1]
    IN  F[Len(coll)]

Take(seq, limit) ==
    IF limit = None \/ limit[1] >= Len(seq) THEN seq ELSE SubSeq(seq, 1, limit[1])

\* get_documents(name, filter, limit): the matching documents in the store's
\* natural (insertion) order, at most limit of them
GetDocuments(coll, filter, limit) == Take(Matching(coll, filter), limit)

\* it["_id"] = str(it["_id"]) for every listed item
Serializable(items) == [i \in 1..Len(items) |-> [items[i] EXCEPT !._id = Str(@)]]

-----------------------------------------------------------------------------
(* Mood tracking *)

Moods == {"great", "good", "ok", "low", "bad"}

\* add_mood without the 404 for an unknown email
add_mood_unchecked(e, mood, note) ==
    /\ UNCHANGED <<db, profile, habit, reminder, cycleentry, now, threadVars>>
    /\ IF ~db
       THEN /\ response' = Unavailable("add_mood", e)
            /\ UNCHANGED moodentry
       ELSE LET u == FindOne(profile, e)
            IN  /\ moodentry' = CreateDocument(moodentry,
                        [user_id |-> IF u = None THEN None ELSE Str(u[1]._id),
                         mood |-> mood, note |-> note, created_at |-> now])
                /\ response' = Ok("add_mood", e, [ok |-> TRUE])

add_mood(e, mood, note) ==
    /\ UNCHANGED <<db, profile, habit, reminder, cycleentry, now, threadVars>>
    /\ IF ~db
       THEN /\ response' = Unavailable("add_mood", e)
            /\ UNCHANGED moodentry
       ELSE LET u == FindOne(profile, e)
            IN  IF u = None
                THEN /\ response' = NotFound("add_mood", e)
                     /\ UNCHANGED moodentry
                ELSE /\ moodentry' = CreateDocument(moodentry,
                            [user_id |-> Str(u[1]._id), mood |-> mood,
                             note |-> note, created_at |-> now])
                     /\ response' = Ok("add_mood", e, [ok |-> TRUE])

list_moods(e, limit) ==
    /\ UNCHANGED <<db, store, now, threadVars>>
    /\ IF ~db
       THEN response' = Unavailable("list_moods", e)
       ELSE LET u == FindOne(profile, e)
            IN  IF u = None
                THEN response' = NotFound("list_moods", e)
                ELSE LET items == GetDocuments(moodentry,
                                    [user_id |-> Str(u[1]._id)], Some(limit))
                     IN  response' = Ok("list_moods", e, Serializable(items))

-----------------------------------------------------------------------------
(* Habits *)

create_habit(e, title, frequency) ==
    /\ UNCHANGED <<db, profile, moodentry, reminder, cycleentry, now, threadVars>>
    /\ IF ~db
       THEN /\ response' = Unavailable("create_habit", e)
            /\ UNCHANGED habit
       ELSE LET u == FindOne(profile, e)
                doc == [user_id |-> IF u = None THEN None ELSE Str(u[1]._id),
                        title |-> title, frequency |-> frequency,
                        active |-> TRUE, streak |-> 0, last_completed_at |-> None]
            IN  IF u = None
                THEN /\ response' = NotFound("create_habit", e)
                     /\ UNCHANGED habit
                ELSE IF ~HabitValid(doc)
                THEN /\ response' = Error("create_habit", e, 500, "ValidationError")
                     /\ UNCHANGED habit
                ELSE /\ habit' = CreateDocument(habit, doc)
                     /\ response' = Ok("create_habit", e, [ok |-> TRUE])

list_habits(e) ==
    /\ UNCHANGED <<db, store, now, threadVars>>
    /\ IF ~db
       THEN response' = Unavailable("list_habits", e)
       ELSE LET u == FindOne(profile, e)
            IN  IF u = None
                THEN response' = NotFound("list_habits", e)
                ELSE LET items == GetDocuments(habit,
                                    [user_id |-> Str(u[1]._id)], None)
                     IN  response' = Ok("list_habits", e, Serializable(items))

-----------------------------------------------------------------------------
(* Reminders *)

create_reminder(e, title, remind_at_iso) ==
    /\ UNCHANGED <<db, profile, moodentry, habit, cycleentry, now, threadVars>>
    /\ IF ~db
       THEN /\ response' = Unavailable("create_reminder", e)
            /\ UNCHANGED reminder
       ELSE LET u == FindOne(profile, e)
            IN  IF u = None
                THEN /\ response' = NotFound("create_reminder", e)
                     /\ UNCHANGED reminder
                ELSE /\ reminder' = CreateDocument(reminder,
                            [user_id |-> Str(u[1]._id), title |-> title,
                             remind_at_iso |-> remind_at_iso, enabled |-> TRUE])
                     /\ response' = Ok("create_reminder", e, [ok |-> TRUE])

list_reminders(e) ==
    /\ UNCHANGED <<db, store, now, threadVars>>
    /\ IF ~db
       THEN response' = Unavailable("list_reminders", e)
       ELSE LET u == FindOne(profile, e)
            IN  IF u = None
                THEN response' = NotFound("list_reminders", e)
                ELSE LET items == GetDocuments(reminder,
                                    [user_id |-> Str(u[1]._id)], None)
                     IN  response' = Ok("list_reminders", e, Serializable(items))

-----------------------------------------------------------------------------
(* Cycle tracking + recs *)

\* add_cycle without the 403 for a profile with tracking disabled
add_cycle_ungated(e, date_iso, entry_type, cycle_length_days) ==
    /\ UNCHANGED <<db, profile, moodentry, habit, reminder, now, threadVars>>
    /\ IF ~db
       THEN /\ response' = Unavailable("add_cycle", e)
            /\ UNCHANGED cycleentry
       ELSE LET u == FindOne(profile, e)
                doc == [user_id |-> IF u = None THEN None ELSE Str(u[1]._id),
                        date_iso |-> date_iso, entry_type |-> entry_type,
                        cycle_length_days |-> cycle_length_days]
            IN  IF u = None
                THEN /\ response' = NotFound("add_cycle", e)
                     /\ UNCHANGED cycleentry
                ELSE IF ~CycleEntryValid(doc)
                THEN /\ response' = Error("add_cycle", e, 500, "ValidationError")
                     /\ UNCHANGED cycleentry
                ELSE /\ cycleentry' = CreateDocument(cycleentry, doc)
                     /\ response' = Ok("add_cycle", e, [ok |-> TRUE])

add_cycle(e, date_iso, entry_type, cycle_length_days) ==
    /\ UNCHANGED <<db, profile, moodentry, habit, reminder, now, threadVars>>
    /\ IF ~db
       THEN /\ response' = Unavailable("add_cycle", e)
            /\ UNCHANGED cycleentry
       ELSE LET u == FindOne(profile, e)
                doc == [user_id |-> IF u = None THEN None ELSE Str(u[1]._id),
                        date_iso |-> date_iso, entry_type |-> entry_type,
                        cycle_length_days |-> cycle_length_days]
            IN  IF u = None
                THEN /\ response' = NotFound("add_cycle", e)
                     /\ UNCHANGED cycleentry
                ELSE IF ~u[1].period_tracking_enabled
                THEN /\ response' = Error("add_cycle", e, 403,
                                          "Period tracking not enabled for this user")
                     /\ UNCHANGED cycleentry
                ELSE IF ~CycleEntryValid(doc)
                THEN /\ response' = Error("add_cycle", e, 500, "ValidationError")
                     /\ UNCHANGED cycleentry
                ELSE /\ cycleentry' = CreateDocument(cycleentry, doc)
                     /\ response' = Ok("add_cycle", e, [ok |-> TRUE])

\* A date_iso string is modelled by its form and the instant it denotes:
\*   "date"      YYYY-MM-DD
\*   "datetime"  YYYY-MM-DDTHH:MM:SS, without UTC offset
\*   "aware"     a datetime with a UTC offset
\*   "text"      anything else
DateStr(fmt, day, tick) == [fmt |-> fmt, day |-> day, tick |-> tick]

\* datetime.fromisoformat(s): the naive instant in ticks, or None when it raises
FromIsoFormat(s) ==
    IF s.fmt \in {"date", "datetime", "aware"}
    THEN Some([ticks |-> s.day * TicksPerDay + s.tick, aware |-> s.fmt = "aware"])
    ELSE None

\* s + "T00:00:00"
WithMidnight(s) ==
    IF s.fmt = "date" THEN DateStr("datetime", s.day, 0) ELSE DateStr("text", 0, 0)

\* try fromisoformat(s) except: fromisoformat(s + "T00:00:00")
ParseStart(s) ==
    IF FromIsoFormat(s) # None THEN FromIsoFormat(s) ELSE FromIsoFormat(WithMidnight(s))

\* sorted(entries, key=created_at): a stable insertion sort
SortedByCreatedAt(entries) ==
    LET Insert(sorted, x) ==
            LET k == Cardinality({j \in 1..Len(sorted) : sorted[j].created_at <= x.created_at})
            IN  SubSeq(sorted, 1, k) \o <<x>> \o SubSeq(sorted, k + 1, Len(sorted))
        F[i \in 0..Len(entries)] ==
            IF i = 0 THEN <<>> ELSE Insert(F[i - 1], entries[i])
    IN  F[Len(entries)]

\* the first entry of the sorted list instead of the last
LastEntry_takes_first(entries) ==
    LET sorted == SortedByCreatedAt(entries) IN sorted[1]

\* Use last entry
LastEntry(entries) ==
    LET sorted == SortedByCreatedAt(entries) IN sorted[Len(sorted)]

DefaultCycleLen == 28

\* last.get("cycle_length_days") or 28
CycleLen(last) ==
    IF last.cycle_length_days = None \/ last.cycle_length_days[1] = 0
    THEN DefaultCycleLen
    ELSE last.cycle_length_days[1]

\* a remainder that takes the sign of the dividend, as in C
DayOffset_truncating(start, cycle_len) ==
    LET days == (now - start) \div TicksPerDay
    IN  IF days >= 0 THEN days % cycle_len ELSE 0 - ((0 - days) % cycle_len)

\* (datetime.utcnow() - start_date).days % cycle_len: whole days elapsed,
\* rounded towards minus infinity, reduced to [0, cycle_len)
DayOffset(start, cycle_len) ==
    ((now - start) \div TicksPerDay) % cycle_len

MenstrualMax == 5

FollicularMax == 13

OvulationMax == 16

Recs(days) ==
    IF days <= MenstrualMax
    THEN [enabled |-> TRUE, phase |-> "menstrual",
          workout |-> "Gentle yoga, restorative movement",
          food |-> "Iron-rich foods, warm soups, hydration"]
    ELSE IF days <= FollicularMax
    THEN [enabled |-> TRUE, phase |-> "follicular",
          workout |-> "Build intensity: strength and cardio",
          food |-> "Lean protein, fresh veggies, complex carbs"]
    ELSE IF days <= OvulationMax
    THEN [enabled |-> TRUE, phase |-> "ovulation",
          workout |-> "High-intensity or power sessions if comfortable",
          food |-> "Anti-inflammatory foods, hydration"]
    ELSE [enabled |-> TRUE, phase |-> "luteal",
          workout |-> "Moderate intensity, prioritize recovery",
          food |-> "Magnesium-rich foods, balanced meals"]

UnknownRecs ==
    [enabled |-> TRUE, phase |-> "unknown",
     workout |-> "Light walks and stretching",
     food |-> "Balanced meals, hydration"]

\* the period_start entries of a user, as cycle_recs queries them
PeriodStarts(u) ==
    GetDocuments(cycleentry,
                 [user_id |-> Str(u._id), entry_type |-> "period_start"],
                 None)

\* what cycle_recs(email) returns or raises
CycleRecs(e) ==
    IF ~db THEN Unavailable("cycle_recs", e)
    ELSE LET u == FindOne(profile, e)
         IN  IF u = None THEN NotFound("cycle_recs", e)
             ELSE IF ~u[1].period_tracking_enabled
             THEN Ok("cycle_recs", e,
                     [enabled |-> FALSE, message |-> "Period tracking disabled"])
             ELSE LET entries == PeriodStarts(u[1])
                  IN  IF entries = <<>> THEN Ok("cycle_recs", e, UnknownRecs)
                      ELSE LET last == LastEntry(entries)
                               start_date == ParseStart(last.date_iso)
                           IN  IF start_date = None
                               THEN Error("cycle_recs", e, 500, "ValueError")
                               ELSE IF start_date[1].aware
                               THEN Error("cycle_recs", e, 500, "TypeError")
                               ELSE Ok("cycle_recs", e,
                                       Recs(DayOffset(start_date[1].ticks, CycleLen(last))))

cycle_recs(e) ==
    /\ UNCHANGED <<db, store, now, threadVars>>
    /\ response' = CycleRecs(e)

-----------------------------------------------------------------------------
(* AI wellness assistant: daily_tip *)

\* texts are sequences of fragments; + is concatenation
\* tip_by_mood.get(latest_mood, tip_by_mood["ok"])
tip_by_mood(mood) ==
    CASE mood = "great" ->
            <<"Leverage your momentum: schedule a deep-focus block and a short gratitude note.">>
      [] mood = "good" -> <<"Set one high-impact task and a 5-minute mindfulness break.">>
      [] mood = "ok" -> <<"Keep it simple: one task, one walk, and steady hydration.">>
      [] mood = "low" ->
            <<"Be kind to yourself: tiny steps count. Try 3 deep breaths and a 10-minute stroll.">>
      [] mood = "bad" ->
            <<"Prioritize rest and support. Reach out to a friend and schedule light tasks only.">>
      [] OTHER -> <<"Keep it simple: one task, one walk, and steady hydration.">>

CycleMessage(recs) ==
    <<"Cycle phase: ", recs.phase, ". Workout: ", recs.workout, ". Food: ", recs.food, ".">>

\* another default when the user has no mood entry
LatestMood_default_good(u) ==
    LET moods == GetDocuments(moodentry, [user_id |-> Str(u._id)], Some(1))
    IN  IF moods # <<>> THEN moods[1].mood ELSE "good"

LatestMood(u) ==
    LET moods == GetDocuments(moodentry, [user_id |-> Str(u._id)], Some(1))
    IN  IF moods # <<>> THEN moods[1].mood ELSE "ok"

DailyTip(e, language) ==
    IF ~db THEN Unavailable("daily_tip", e)
    ELSE LET u == FindOne(profile, e)
         IN  IF u = None THEN NotFound("daily_tip", e)
             ELSE LET latest_mood == LatestMood(u[1])
                      recs == CycleRecs(e)
                      message == tip_by_mood(latest_mood)
                  IN  IF ~u[1].period_tracking_enabled
                      THEN Ok("daily_tip", e,
                              [mood |-> latest_mood, tip |-> message, language |-> language])
                      ELSE IF recs.status # 200
                      THEN [recs EXCEPT !.op = "daily_tip"]
                      ELSE IF recs.body.enabled
                      THEN Ok("daily_tip", e,
                              [mood |-> latest_mood,
                               tip |-> message \o <<" ">> \o CycleMessage(recs.body),
                               language |-> language])
                      ELSE Ok("daily_tip", e,
                              [mood |-> latest_mood, tip |-> message, language |-> language])

daily_tip(e, language) ==
    /\ UNCHANGED <<db, store, now, threadVars>>
    /\ response' = DailyTip(e, language)

-----------------------------------------------------------------------------
(* The clock *)

Tick ==
    /\ now < MaxClock
    /\ now' = now + 1
    /\ UNCHANGED <<db, store, response, threadVars>>

-----------------------------------------------------------------------------
Init ==
    /\ db \in BOOLEAN
    /\ profile = <<>>
    /\ moodentry = <<>>
    /\ habit = <<>>
    /\ reminder = <<>>
    /\ cycleentry = <<>>
    /\ now = 0
    /\ response = NoResponse
    /\ pc = [t \in Threads |-> "idle"]
    /\ arg = [t \in Threads |-> None]
    /\ ret = [t \in Threads |-> NoResponse]

-----------------------------------------------------------------------------
(* Requests served one at a time: every route, small inputs, a fixed clock *)

EnableBody == Body(None, Some("female"), Some(13), None)

DisableBody == Body(None, None, Some(12), None)

FewDates == {DateStr("date", -7, 0), DateStr("date", 3, 0), DateStr("text", 0, 0)}

EntryTypes == {"period_start", "symptom"}

Docs == Len(moodentry) + Len(habit) + Len(reminder) + Len(cycleentry)

Next ==
    \/ \E e \in Emails : email_login(e)
    \/ \E e \in Emails, body \in {EnableBody, DisableBody} : profile_setup(e, body)
    \/ \E e \in Emails : add_mood(e, "good", None) /\ Docs' <= MaxDocs
    \/ \E e \in Emails, limit \in {1, 30} : list_moods(e, limit)
    \/ \E e \in Emails, title \in {0, 3} :
            create_habit(e, title, "daily") /\ Docs' <= MaxDocs
    \/ \E e \in Emails : list_habits(e)
    \/ \E e \in Emails :
            create_reminder(e, "stretch", "2024-05-01T09:00") /\ Docs' <= MaxDocs
    \/ \E e \in Emails : list_reminders(e)
    \/ \E e \in Emails, d \in FewDates, t \in EntryTypes, l \in {None, Some(19)} :
            add_cycle(e, d, t, l) /\ Docs' <= MaxDocs
    \/ \E e \in Emails : cycle_recs(e)
    \/ \E e \in Emails : daily_tip(e, "en")

Spec == Init /\ [][Next]_vars

-----------------------------------------------------------------------------
(* Profile service alone: every ProfileUpdate body on one of the profiles *)

NextProfile ==
    \/ \E e \in Emails : email_login(e)
    \/ \E body \in ProfileBodies : profile_setup(Ana, body)
    \/ profile_setup(Bo, EnableBody)

SpecProfile == Init /\ [][NextProfile]_vars

-----------------------------------------------------------------------------
(* Cycle service with a running clock *)

CycleInputs ==
    {<<DateStr("date", -15, 0), "period_start", None>>,
     <<DateStr("date", 3, 0), "period_start", Some(20)>>,
     <<DateStr("date", 0, 0), "symptom", None>>}

NextCycle ==
    \/ \E e \in Emails : email_login(e)
    \/ \E e \in Emails : profile_setup(e, EnableBody)
    \/ \E c \in CycleInputs :
            add_cycle(Ana, c[1], c[2], c[3]) /\ Len(cycleentry') <= MaxCycles
    \/ add_cycle(Bo, DateStr("date", -7, 0), "period_start", None)
            /\ Len(cycleentry') <= MaxCycles
    \/ \E e \in Emails : cycle_recs(e)
    \/ Tick

SpecCycle == Init /\ [][NextCycle]_vars

-----------------------------------------------------------------------------
(* Mood service and daily tip with a running clock *)

NextMood ==
    \/ \E e \in Emails : email_login(e)
    \/ \E m \in Moods :
            add_mood(Ana, m, None) /\ Len(moodentry') <= MaxMoods
    \/ add_mood(Bo, "low", Some("tired")) /\ Len(moodentry') <= MaxMoods
    \/ \E e \in Emails, limit \in {1, 30} : list_moods(e, limit)
    \/ \E e \in Emails : daily_tip(e, "en")
    \/ Tick

SpecMood == Init /\ [][NextMood]_vars

-----------------------------------------------------------------------------
(* email_login on concurrent worker threads: one step per store call *)

\* users.find_one({"email": payload.email}) and the early return
LoginFind(t, e) ==
    /\ pc[t] = "idle"
    /\ UNCHANGED <<db, store, now, response>>
    /\ IF ~db
       THEN /\ pc' = [pc EXCEPT ![t] = "done"]
            /\ arg' = [arg EXCEPT ![t] = Some(e)]
            /\ ret' = [ret EXCEPT ![t] = Unavailable("email_login", e)]
       ELSE LET existing == FindOne(profile, e)
            IN  IF existing # None
                THEN /\ pc' = [pc EXCEPT ![t] = "done"]
                     /\ arg' = [arg EXCEPT ![t] = Some(e)]
                     /\ ret' = [ret EXCEPT ![t] =
                                    Ok("email_login", e, AuthResponse(existing[1]))]
                ELSE /\ pc' = [pc EXCEPT ![t] = "insert"]
                     /\ arg' = [arg EXCEPT ![t] = Some(e)]
                     /\ UNCHANGED ret

\* an insert that does nothing when the email is already there
LoginInsert_if_absent(t) ==
    /\ pc[t] = "insert"
    /\ profile' = IF FindOne(profile, arg[t][1]) = None
                  THEN InsertOne(profile, DefaultProfile(arg[t][1]))
                  ELSE profile
    /\ pc' = [pc EXCEPT ![t] = "refind"]
    /\ UNCHANGED <<db, moodentry, habit, reminder, cycleentry, now, response, arg, ret>>

\* users.insert_one({**default.model_dump(), ...})
LoginInsert(t) ==
    /\ pc[t] = "insert"
    /\ profile' = InsertOne(profile, DefaultProfile(arg[t][1]))
    /\ pc' = [pc EXCEPT ![t] = "refind"]
    /\ UNCHANGED <<db, moodentry, habit, reminder, cycleentry, now, response, arg, ret>>

\* created = users.find_one({"email": payload.email}) and the return
LoginRefind(t) ==
    /\ pc[t] = "refind"
    /\ LET created == FindOne(profile, arg[t][1])
       IN  ret' = [ret EXCEPT ![t] =
                      Ok("email_login", arg[t][1], AuthResponse(created[1]))]
    /\ pc' = [pc EXCEPT ![t] = "done"]
    /\ UNCHANGED <<db, store, now, response, arg>>

\* the response is sent and the thread goes back to the pool
LoginReturn(t) ==
    /\ pc[t] = "done"
    /\ response' = ret[t]
    /\ pc' = [pc EXCEPT ![t] = "idle"]
    /\ arg' = [arg EXCEPT ![t] = None]
    /\ ret' = [ret EXCEPT ![t] = NoResponse]
    /\ UNCHANGED <<db, store, now>>

NextRace ==
    \/ \E t \in Threads, e \in Emails : LoginFind(t, e)
    \/ \E t \in Threads : LoginInsert(t)
    \/ \E t \in Threads : LoginRefind(t)
    \/ \E t \in Threads : LoginReturn(t)

SpecRace == Init /\ [][NextRace]_vars

-----------------------------------------------------------------------------
(* cycle_recs over start dates, cycle lengths and instants *)

PhaseStarts ==
    {DateStr("date", d, 0) : d \in -PhaseDays..PhaseDays}
        \cup {DateStr("datetime", d, k) : d \in -PhaseDays..PhaseDays, k \in 0..(TicksPerDay - 1)}
        \cup {DateStr("aware", 0, 0), DateStr("text", 0, 0)}

PhaseLens == {None, Some(20), Some(28), Some(33), Some(60)}

\* ana logged in, set female/13, recorded one period_start, and time went on
InitPhase ==
    /\ now \in 0..(2 * TicksPerDay - 1)
    /\ db = TRUE
    /\ profile = <<[DefaultProfile(Ana) EXCEPT !._id = 1, !.gender = "female", !.age = 13,
                        !.period_tracking_enabled = TRUE, !.created_at = 0, !.updated_at = 0]>>
    /\ moodentry = <<>>
    /\ habit = <<>>
    /\ reminder = <<>>
    /\ \E d \in PhaseStarts, l \in PhaseLens :
            cycleentry = <<[_id |-> 1, user_id |-> Str(1), date_iso |-> d,
                            entry_type |-> "period_start", cycle_length_days |-> l,
                            created_at |-> 0]>>
    /\ response = NoResponse
    /\ pc = [t \in Threads |-> "idle"]
    /\ arg = [t \in Threads |-> None]
    /\ ret = [t \in Threads |-> NoResponse]

NextPhase == cycle_recs(Ana)

SpecPhase == InitPhase /\ [][NextPhase]_vars

-----------------------------------------------------------------------------
(* Properties of the profile service, under SpecProfile *)

ProfilesOf(coll, e) == {i \in 1..Len(coll) : coll[i].email = e}

\* C1: with calls served one at a time, an email_login for an email leaves
\* exactly one profile for that email and answers with that profile's
\* user_id, period_tracking_enabled and language; when the profile existed
\* the call inserts nothing, and a call right after another call for the same
\* email returns the same answer.
C1_LoginIdempotent ==
    [][\A e \in Emails :
        (db /\ email_login(e)) =>
            LET before == FindOne(profile, e)
                after == ProfilesOf(profile', e)
            IN  /\ Cardinality(after) = 1
                /\ response'.status = 200
                /\ \A i \in after :
                    /\ response'.body.user_id = Str(profile'[i]._id)
                    /\ response'.body.period_tracking_enabled
                            = profile'[i].period_tracking_enabled
                    /\ response'.body.language = profile'[i].language
                /\ before # None => profile' = profile
                /\ before = None =>
                    /\ Len(profile') = Len(profile) + 1
                    /\ response'.body.period_tracking_enabled = FALSE
                    /\ response'.body.language = "en"
                /\ (response.op = "email_login" /\ response.email = e) =>
                        (response' = response /\ profile' = profile)
    ]_vars

\* a second call answered from a profile that was modified in between
C1_Witness ==
    /\ response.op = "email_login"
    /\ response.status = 200
    /\ response.body.language = "fr"
    /\ response.body.period_tracking_enabled
    /\ Len(profile) = 2

\* C3: after profile_setup on an existing profile the stored flag is, when
\* age is supplied, (supplied gender, else the stored gender) = female and
\* age >= 13; when age is not supplied the flag keeps its stored value.
C3_FlagDerivation ==
    [][\A e \in Emails :
        (db /\ response'.op = "profile_setup" /\ response'.email = e
            /\ FindOne(profile, e) # None) =>
            LET old == FindOne(profile, e)[1]
                new == FindOne(profile', e)[1]
                \* the bodies that can have produced the stored fields
                Fits(body) ==
                    /\ body.age # None => new.age = body.age[1]
                    /\ body.gender # None => new.gender = body.gender[1]
                    /\ body.name # None => new.name = body.name[1]
                    /\ body.language # None => new.language = body.language[1]
            IN  \A body \in ProfileBodies :
                    (Fits(body) /\ profile_setup(e, body)) =>
                        LET gender == IF body.gender = None THEN old.gender
                                      ELSE body.gender[1]
                        IN  /\ response'.status = 200
                            /\ response'.body.period_tracking_enabled
                                    = new.period_tracking_enabled
                            /\ IF body.age = None
                               THEN new.period_tracking_enabled
                                        = old.period_tracking_enabled
                               ELSE new.period_tracking_enabled
                                        = (gender = "female" /\ ~(body.age[1] < 13))
    ]_vars

\* a gender-only update made a profile of age 120 female and left its flag off
C3_Witness ==
    /\ response.op = "profile_setup" /\ response.status = 200
    /\ response.body.gender = "female" /\ response.body.age = 120
    /\ ~response.body.period_tracking_enabled

\* C9: every stored profile has gender in {female, male} and age in [0, 120]
C9_ProfileInRange ==
    \A i \in 1..Len(profile) :
        /\ profile[i].gender \in {"female", "male"}
        /\ profile[i].age >= 0 /\ profile[i].age <= 120

-----------------------------------------------------------------------------
(* Properties of concurrent email_login, under SpecRace *)

\* C2: nothing orders two email_login calls for the same new email: a call
\* that saw no profile stays on its way to insert_one whatever the other
\* calls do, and its insert_one adds one more profile with its email even
\* when another call has inserted one meanwhile.
C2_NoMutualExclusion ==
    [][\A t \in Threads :
        /\ pc[t] = "insert" => pc'[t] \in {"insert", "refind"}
        /\ (pc[t] = "insert" /\ pc'[t] = "refind") =>
                Cardinality(ProfilesOf(profile', arg[t][1]))
                    = Cardinality(ProfilesOf(profile, arg[t][1])) + 1
    ]_vars

\* both calls saw no profile, both inserted: two profiles with one email
C2_Witness ==
    /\ pc[1] = "refind" /\ pc[2] = "refind"
    /\ arg[1] = arg[2]
    /\ Len(profile) = 2
    /\ profile[1].email = profile[2].email

-----------------------------------------------------------------------------
(* Properties of every route, under Spec *)

PerUserOps ==
    {"profile_setup", "add_mood", "list_moods", "create_habit", "list_habits",
     "create_reminder", "list_reminders", "add_cycle", "cycle_recs", "daily_tip"}

\* C4: add_cycle for a profile whose period_tracking_enabled is false
\* answers 403 and leaves every collection unchanged; the cycleentry
\* collection changes only by one entry appended by an add_cycle call that
\* found the owning profile with the flag true.
C4_CycleGate ==
    [][/\ \A e \in Emails :
            (db /\ response'.op = "add_cycle" /\ response'.email = e
                /\ FindOne(profile, e) # None
                /\ ~FindOne(profile, e)[1].period_tracking_enabled) =>
                    (response'.status = 403 /\ store' = store)
       /\ cycleentry' # cycleentry =>
            /\ response'.op = "add_cycle"
            /\ FindOne(profile, response'.email) # None
            /\ FindOne(profile, response'.email)[1].period_tracking_enabled
            /\ Len(cycleentry') = Len(cycleentry) + 1
            /\ SubSeq(cycleentry', 1, Len(cycleentry)) = cycleentry
            /\ cycleentry'[Len(cycleentry')].user_id
                    = Str(FindOne(profile, response'.email)[1]._id)
    ]_vars

\* a refused add_cycle, next to an accepted one of the other user
C4_Witness ==
    /\ response.op = "add_cycle" /\ response.status = 403
    /\ Len(cycleentry) = 1
    /\ Len(profile) = 2

\* C5: a per-user operation other than email_login, called with an email
\* that has no profile, answers 404 and leaves every collection unchanged.
C5_UnknownEmail ==
    [][(db /\ response'.op \in PerUserOps /\ FindOne(profile, response'.email) = None) =>
            (response'.status = 404 /\ store' = store)
    ]_vars

\* an unknown email refused while the other user has a profile and a record
C5_Witness ==
    /\ response.op = "add_cycle" /\ response.status = 404
    /\ Len(profile) = 1
    /\ Docs = 1

OkTip == "Keep it simple: one task, one walk, and steady hydration."

NoMoods(e) ==
    /\ FindOne(profile, e) # None
    /\ \A i \in 1..Len(moodentry) : moodentry[i].user_id # Str(FindOne(profile, e)[1]._id)

\* C8 as claimed: with no mood entries the tip is exactly the "ok" text,
\* whatever the profile's other fields are
C8_ExactlyOkTip ==
    (response.op = "daily_tip" /\ response.status = 200 /\ NoMoods(response.email)) =>
        (response.body.mood = "ok" /\ response.body.tip = <<OkTip>>)

\* C8: for a profile with no mood entries an answered daily_tip has mood
\* "ok" and a tip that begins with the "ok" text; the tip is exactly that
\* text when period_tracking_enabled is false, and when it is true a space
\* and the cycle sentence (phase, workout, food) follow.
C8_OkTipThenCycle ==
    (response.op = "daily_tip" /\ response.status = 200 /\ NoMoods(response.email)) =>
        LET tip == response.body.tip
        IN  /\ response.body.mood = "ok"
            /\ tip[1] = OkTip
            /\ IF ~FindOne(profile, response.email)[1].period_tracking_enabled
               THEN Len(tip) = 1
               ELSE /\ Len(tip) = 9
                    /\ tip[2] = " " /\ tip[3] = "Cycle phase: "
                    /\ tip[4] \in {"unknown", "menstrual", "follicular", "ovulation", "luteal"}
                    /\ tip[5] = ". Workout: " /\ tip[7] = ". Food: " /\ tip[9] = "."

\* no moods, tracking on, a recorded period start: the cycle sentence follows
C8_Witness ==
    /\ response.op = "daily_tip" /\ response.status = 200
    /\ NoMoods(response.email)
    /\ Len(response.body.tip) = 9
    /\ response.body.tip[4] = "follicular"

-----------------------------------------------------------------------------
(* Properties of the rule engines *)

Span == PhaseDays + 2

\* whole days from the instant start to the instant at, rounded down
ElapsedDays(start, at) ==
    CHOOSE d \in -Span..Span :
        d * TicksPerDay <= at - start /\ at - start < (d + 1) * TicksPerDay

\* the residue of d in [0, len): d less the greatest multiple of len below it
Residue(d, len) ==
    LET q == CHOOSE k \in -Span..Span : k * len <= d /\ d < (k + 1) * len
    IN  d - q * len

PhaseOf(offset) ==
    CASE offset \in 0..5 -> "menstrual"
      [] offset \in 6..13 -> "follicular"
      [] offset \in 14..16 -> "ovulation"
      [] OTHER -> "luteal"

TextsOf(phase) ==
    CASE phase = "menstrual" ->
            <<"Gentle yoga, restorative movement", "Iron-rich foods, warm soups, hydration">>
      [] phase = "follicular" ->
            <<"Build intensity: strength and cardio", "Lean protein, fresh veggies, complex carbs">>
      [] phase = "ovulation" ->
            <<"High-intensity or power sessions if comfortable",
              "Anti-inflammatory foods, hydration">>
      [] phase = "luteal" ->
            <<"Moderate intensity, prioritize recovery", "Magnesium-rich foods, balanced meals">>

\* the phase the claims expect from a period_start entry at the instant at
ExpectedOffset(entry, at) ==
    LET len == IF entry.cycle_length_days = None THEN 28 ELSE entry.cycle_length_days[1]
        start == entry.date_iso.day * TicksPerDay + entry.date_iso.tick
    IN  Residue(ElapsedDays(start, at), len)

\* C6: for every start date, past or future, and every cycle length (28
\* when the entry has none) the offset lies in [0, cycle_length), it is the
\* number of days from the start date to the current date reduced modulo
\* the cycle length, and the answer is the phase of that offset with its
\* fixed workout and food texts.
C6_PhaseByOffset ==
    (response.op = "cycle_recs" /\ response.status = 200) =>
        LET entry == cycleentry[1]
            len == IF entry.cycle_length_days = None THEN 28 ELSE entry.cycle_length_days[1]
            offset == ExpectedOffset(entry, now)
            today == ElapsedDays(0, now)
        IN  /\ offset >= 0 /\ offset < len
            /\ entry.date_iso.fmt = "date" =>
                    \E q \in -Span..Span : today - entry.date_iso.day = q * len + offset
            /\ response.body.enabled
            /\ response.body.phase = PhaseOf(offset)
            /\ response.body.workout = TextsOf(PhaseOf(offset))[1]
            /\ response.body.food = TextsOf(PhaseOf(offset))[2]

\* a start date in the future: 3 days ahead on a 20-day cycle is offset 17
C6_Witness ==
    /\ response.op = "cycle_recs" /\ response.status = 200
    /\ cycleentry[1].date_iso = DateStr("date", 3, 0)
    /\ cycleentry[1].cycle_length_days = Some(20)
    /\ now < TicksPerDay
    /\ response.body.phase = "luteal"

\* the mood entries of the user with this email, oldest first
MoodsOf(e) ==
    Matching(moodentry, [user_id |-> Str(FindOne(profile, e)[1]._id)])

\* C7: daily_tip returns the mood of the user's most recent mood entry, the
\* one with the greatest created_at (stated here for a user whose last entry
\* is strictly newer than the others), and "ok" when the user has none
C7_LatestMood ==
    (response.op = "daily_tip" /\ response.status = 200) =>
        LET mine == MoodsOf(response.email)
        IN  /\ mine = <<>> => response.body.mood = "ok"
            /\ (/\ mine # <<>>
                /\ \A i \in 1..(Len(mine) - 1) :
                        mine[i].created_at < mine[Len(mine)].created_at) =>
                    response.body.mood = mine[Len(mine)].mood

\* C10: for a tracking-enabled user with a period_start entry, cycle_recs
\* answers with the phase of the period_start entry recorded last (none has
\* a later created_at), whatever the date_iso of the others, and never from
\* a symptom entry.
C10_LastRecordedStart ==
    [][\A e \in Emails :
        (db /\ cycle_recs(e) /\ FindOne(profile, e) # None) =>
            LET u == FindOne(profile, e)[1]
                mine == {i \in 1..Len(cycleentry) :
                            /\ cycleentry[i].user_id = Str(u._id)
                            /\ cycleentry[i].entry_type = "period_start"}
            IN  (u.period_tracking_enabled /\ mine # {}) =>
                    LET last == cycleentry[CHOOSE i \in mine : \A j \in mine : j <= i]
                    IN  /\ \A j \in mine : cycleentry[j].created_at <= last.created_at
                        /\ response'.status = 200
                        /\ response'.body.phase = PhaseOf(ExpectedOffset(last, now))
    ]_vars

\* the later date was recorded first and a symptom last: the answer follows
\* the period start recorded last
C10_Witness ==
    /\ response.op = "cycle_recs" /\ response.status = 200
    /\ response.email = Ana
    /\ Len(cycleentry) = 2
    /\ cycleentry[1].date_iso.day = 3 /\ cycleentry[2].date_iso.day = -15
    /\ cycleentry[1].entry_type = "period_start"
    /\ cycleentry[2].entry_type = "period_start"
    /\ cycleentry[1].created_at < cycleentry[2].created_at
    /\ response.body.phase = "ovulation"

=============================================================================
